---- MODULE Spec2Model ----
(***************************************************************************)
(* Model of the student directory sync tool                                *)
(* (src/framework/scripts/sync_student.py).                                *)
(*                                                                         *)
(* A relative path is named by a string; Str gives its characters as a     *)
(* sequence of one-character strings, and patterns are such sequences too, *)
(* so that fnmatch, startswith and replace are computed on the characters. *)
(* File contents are sequences of tokens: the two KEEP markers are single  *)
(* tokens (neither marker string overlaps itself or the other), every      *)
(* other token is one character or one literal of the preserved section.   *)
(* The trees hold regular files only; directories are implicit.            *)
(***************************************************************************)
EXTENDS Integers, Sequences, FiniteSets, TLC

VARIABLES
    prof,        \* professor (source) tree: path -> file
    stud,        \* student (target) tree: path -> file
    now,         \* filesystem clock; a write stamps the file with it
    pc,          \* position of the sync run: "idle" | "scanned" | "applied", and
                 \* "raised" | "interrupted" | "rescanned" | "recovered" for runs
                 \* that met a failure, "exited" | "failed" once the process
                 \* has ended; "matched" | "extracted" | "merged" for the
                 \* functions that are exercised on their own
    changes,     \* the ChangeSet held by the run (scan result or caller's)
    results,     \* the counters returned by perform_sync
    log,         \* per-file outcomes of the last perform_sync, in order
    pre,         \* the student tree as it was when perform_sync was entered
    force_list,  \* force_update_list passed to the last perform_sync
    origin,      \* "scan": ChangeSet came from scan_directory_changes; "direct"
    runs,        \* completed Scan+Apply runs since the trees were last edited
    edits,       \* number of edits made to the trees by their owners
    fault,       \* the I/O failure or interruption met by the last scan or sync
    start,       \* the student tree as it was when an interrupted run began
    m_path,      \* should_sync_file under test: its rel_path argument
    m_patterns,  \* should_sync_file under test: its exclusion_patterns argument
    m_res,       \* should_sync_file under test: the value it returned
    k_content,   \* preserve_keep_blocks under test: its content argument
    k_new,       \* apply_keep_blocks under test: its new_content argument
    k_blocks,    \* the value preserve_keep_blocks returned
    k_out,       \* the value apply_keep_blocks returned
    f_path,      \* is_framework_file under test: its rel_path argument
    f_res,       \* the values is_framework_file returned, one per call
    status       \* exit status of the process that ran main, NotExited before

vars == <<prof, stud, now, pc, changes, results, log, pre, force_list, origin, runs, edits,
          fault, start, m_path, m_patterns, m_res,
          k_content, k_new, k_blocks, k_out, f_path, f_res, status>>

\* the variables of the functions that are exercised on their own
codec_vars == <<k_content, k_new, k_blocks, k_out>>
framework_vars == <<f_path, f_res>>

(***************************************************************************)
(* Bounds                                                                  *)
(***************************************************************************)
MaxTime == 1
MaxEdits == 2
MaxRuns == 2
MaxPatterns == 2
MaxLen == 4
MaxCalls == 2

(***************************************************************************)
(* Characters and strings                                                  *)
(***************************************************************************)
StartsWith(s, pre_) ==
    /\ Len(pre_) <= Len(s)
    /\ \A i \in 1..Len(pre_) : s[i] = pre_[i]

EndsWith(s, suf) ==
    /\ Len(suf) <= Len(s)
    /\ \A i \in 1..Len(suf) : s[Len(s) - Len(suf) + i] = suf[i]

\* 'sub in s'
Contains(s, sub) ==
    \E k \in 0..(Len(s) - Len(sub)) : \A i \in 1..Len(sub) : s[k + i] = sub[i]

RECURSIVE Replace(_, _, _)
\* s.replace(old, new): every non-overlapping occurrence, left to right
Replace(s, old, new) ==
    IF s = <<>> THEN <<>>
    ELSE IF StartsWith(s, old)
         THEN new \o Replace(SubSeq(s, Len(old) + 1, Len(s)), old, new)
         ELSE <<Head(s)>> \o Replace(Tail(s), old, new)

\* str(rel_path).replace('\\', '/')
NormalizePath(rel_path) == Replace(rel_path, <<"\\">>, <<"/">>)

RECURSIVE fnmatch(_, _)
\* fnmatch.fnmatch on a POSIX host: '*' matches any run of characters ('/'
\* included), '?' any one character, the whole name must match.  None of the
\* program's patterns holds a '[' class.
fnmatch(name, pat) ==
    IF pat = <<>> THEN name = <<>>
    ELSE IF Head(pat) = "*"
         THEN \/ fnmatch(name, Tail(pat))
              \/ (name # <<>> /\ fnmatch(Tail(name), pat))
         ELSE /\ name # <<>>
              /\ (Head(pat) = "?" \/ Head(pat) = Head(name))
              /\ fnmatch(Tail(name), Tail(pat))

(***************************************************************************)
(* Program constants                                                       *)
(***************************************************************************)
class_notes == <<"c","l","a","s","s","_","n","o","t","e","s">>

\* CONTENT_DIRECTORIES that also lists the framework code
CONTENT_DIRECTORIES_WithFramework ==
    << class_notes, <<"f","r","a","m","e","w","o","r","k","_","c","o","d","e">> >>

CONTENT_DIRECTORIES == << class_notes >>

generated_content ==
    << <<"*","*","/","0","0","_","i","n","d","e","x",".","m","d">>,
       <<"*","*","/","0","0","_","m","a","s","t","e","r","_","i","n","d","e","x",".","m","d">>,
       <<"*",".","b","a","c","k","u","p">> >>

build_artifacts ==
    << <<"_","_","p","y","c","a","c","h","e","_","_","/">>,
       <<"_","_","p","y","c","a","c","h","e","_","_","/","*","*">>,
       <<"*",".","p","y","c">>,
       <<"*",".","p","y","o">>,
       <<"*",".","p","y","d">>,
       <<".","h","u","g","o","_","b","u","i","l","d",".","l","o","c","k">>,
       <<"*",".","l","o","g">>,
       <<"*",".","t","m","p">>,
       <<"*",".","t","e","m","p">> >>

personal_files ==
    << <<".","v","s","c","o","d","e","/">>,
       <<".","i","d","e","a","/">>,
       <<".","v","s","c","o","d","e","/","*","*">>,
       <<".","i","d","e","a","/","*","*">>,
       <<"*",".","s","w","p">>,
       <<"*",".","s","w","o">>,
       <<"*","~">>,
       <<".","D","S","_","S","t","o","r","e">>,
       <<"T","h","u","m","b","s",".","d","b">>,
       <<"d","e","s","k","t","o","p",".","i","n","i">>,
       <<".","e","n","v">>,
       <<".","e","n","v",".","l","o","c","a","l">>,
       <<".","e","n","v",".","*">> >>

\* the dict, in insertion order: <<category name, pattern list>>
SYNC_EXCLUSIONS ==
    << <<"generated_content", generated_content>>,
       <<"build_artifacts", build_artifacts>>,
       <<"personal_files", personal_files>> >>

RECURSIVE ExtendAll(_, _)
ExtendAll(cats, k) ==
    IF k > Len(cats) THEN <<>> ELSE cats[k][2] \o ExtendAll(cats, k + 1)

get_all_exclusion_patterns == ExtendAll(SYNC_EXCLUSIONS, 1)

framework_paths ==
    << <<"f","r","a","m","e","w","o","r","k","_","c","o","d","e","/","s","c","r","i","p","t","s","/">>,
       <<"f","r","a","m","e","w","o","r","k","_","c","o","d","e","/","t","h","e","m","e","s","/">>,
       <<"f","r","a","m","e","w","o","r","k","_","c","o","d","e","/","c","o","m","p","o","n","e","n","t","s","/">>,
       <<"f","r","a","m","e","w","o","r","k","_","c","o","d","e","/","c","s","s","/">>,
       <<"f","r","a","m","e","w","o","r","k","_","c","o","d","e","/","a","s","s","e","t","s","/">>,
       <<"f","r","a","m","e","w","o","r","k","_","c","o","d","e","/","h","u","g","o","_","c","o","n","f","i","g","/">> >>

TextSuffixes == { <<".","m","d">>, <<".","t","x","t">>, <<".","h","t","m","l">>, <<".","q","m","d">> }

(***************************************************************************)
(* Exclusion matcher and framework classifier                              *)
(***************************************************************************)
Include == [sync |-> TRUE, kind |-> "include", pattern |-> <<>>]

\* should_sync_file returning (True, "include") from inside the loop: only
\* pattern number k is tried
MatchFrom_FirstOnly(path_str, exclusion_patterns, k) ==
    IF k > Len(exclusion_patterns) THEN Include
    ELSE LET pattern == exclusion_patterns[k] IN
         IF fnmatch(path_str, pattern)
         THEN [sync |-> FALSE, kind |-> "pattern", pattern |-> pattern]
         ELSE IF EndsWith(pattern, <<"/">>) /\ StartsWith(path_str, pattern)
         THEN [sync |-> FALSE, kind |-> "directory", pattern |-> pattern]
         ELSE IF /\ Contains(pattern, <<"/","*","*">>)
                 /\ StartsWith(path_str, Replace(pattern, <<"/","*","*">>, <<"/">>))
         THEN [sync |-> FALSE, kind |-> "recursive", pattern |-> pattern]
         ELSE Include

\* should_sync_file reporting the last matching pattern instead of the first
MatchFrom_Last(path_str, exclusion_patterns, k) ==
    LET glob(i) == fnmatch(path_str, exclusion_patterns[i])
        dir(i) == /\ EndsWith(exclusion_patterns[i], <<"/">>)
                  /\ StartsWith(path_str, exclusion_patterns[i])
        rec(i) == /\ Contains(exclusion_patterns[i], <<"/","*","*">>)
                  /\ StartsWith(path_str,
                                Replace(exclusion_patterns[i], <<"/","*","*">>, <<"/">>))
        hits == { i \in k..Len(exclusion_patterns) : glob(i) \/ dir(i) \/ rec(i) }
    IN  IF hits = {} THEN Include
        ELSE LET i == CHOOSE h \in hits : \A g \in hits : g <= h IN
             [sync |-> FALSE,
              kind |-> IF glob(i) THEN "pattern" ELSE IF dir(i) THEN "directory"
                       ELSE "recursive",
              pattern |-> exclusion_patterns[i]]

RECURSIVE MatchFrom_Substring(_, _, _)
\* should_sync_file testing a directory pattern with 'pattern in path_str'
\* instead of path_str.startswith(pattern)
MatchFrom_Substring(path_str, exclusion_patterns, k) ==
    IF k > Len(exclusion_patterns) THEN Include
    ELSE LET pattern == exclusion_patterns[k] IN
         IF fnmatch(path_str, pattern)
         THEN [sync |-> FALSE, kind |-> "pattern", pattern |-> pattern]
         ELSE IF EndsWith(pattern, <<"/">>) /\ Contains(path_str, pattern)
         THEN [sync |-> FALSE, kind |-> "directory", pattern |-> pattern]
         ELSE IF /\ Contains(pattern, <<"/","*","*">>)
                 /\ StartsWith(path_str, Replace(pattern, <<"/","*","*">>, <<"/">>))
         THEN [sync |-> FALSE, kind |-> "recursive", pattern |-> pattern]
         ELSE MatchFrom_Substring(path_str, exclusion_patterns, k + 1)

RECURSIVE MatchFrom(_, _, _)
\* the for-loop of should_sync_file from pattern number k on
MatchFrom(path_str, exclusion_patterns, k) ==
    IF k > Len(exclusion_patterns) THEN Include
    ELSE LET pattern == exclusion_patterns[k] IN
         IF fnmatch(path_str, pattern)
         THEN [sync |-> FALSE, kind |-> "pattern", pattern |-> pattern]
         ELSE IF EndsWith(pattern, <<"/">>) /\ StartsWith(path_str, pattern)
         THEN [sync |-> FALSE, kind |-> "directory", pattern |-> pattern]
         ELSE IF /\ Contains(pattern, <<"/","*","*">>)
                 /\ StartsWith(path_str, Replace(pattern, <<"/","*","*">>, <<"/">>))
         THEN [sync |-> FALSE, kind |-> "recursive", pattern |-> pattern]
         ELSE MatchFrom(path_str, exclusion_patterns, k + 1)

\* rel_path_str is str(rel_path)
should_sync_file(rel_path_str, exclusion_patterns) ==
    MatchFrom(NormalizePath(rel_path_str), exclusion_patterns, 1)

\* the text of the reason: "include", or f"pattern: {pattern}",
\* f"directory: {pattern}", f"recursive: {pattern}" (lines 72, 75, 79, 81)
ReasonText(v) ==
    CASE v.kind = "include" -> <<"i","n","c","l","u","d","e">>
      [] v.kind = "pattern" -> <<"p","a","t","t","e","r","n",":"," ">> \o v.pattern
      [] v.kind = "directory" -> <<"d","i","r","e","c","t","o","r","y",":"," ">> \o v.pattern
      [] v.kind = "recursive" -> <<"r","e","c","u","r","s","i","v","e",":"," ">> \o v.pattern

\* the characters of the category names, the keys of SYNC_EXCLUSIONS
CategoryChars ==
    ("generated_content" :>
        <<"g","e","n","e","r","a","t","e","d","_","c","o","n","t","e","n","t">>)
    @@ ("build_artifacts" :>
        <<"b","u","i","l","d","_","a","r","t","i","f","a","c","t","s">>)
    @@ ("personal_files" :>
        <<"p","e","r","s","o","n","a","l","_","f","i","l","e","s">>)

\* is_framework_file without the replacement of backslashes
is_framework_file_NoNormalize(rel_path_str) ==
    \E k \in 1..Len(framework_paths) : StartsWith(rel_path_str, framework_paths[k])

\* rel_path_str is str(rel_path)
is_framework_file(rel_path_str) ==
    \E k \in 1..Len(framework_paths) :
        StartsWith(NormalizePath(rel_path_str), framework_paths[k])

(***************************************************************************)
(* Paths of the model                                                      *)
(***************************************************************************)
NotesMd    == "class_notes/a.md"
NotesPng   == "class_notes/b.png"
NotesIndex == "class_notes/00_index.md"
NotesLog   == "class_notes/x.log"
NotesSwp   == "class_notes/a.swp"
FrameworkPy == "framework_code/scripts/m.py"
HugoIndex  == "hugo_generated/public/index.html"

\* the characters of each path of the model
PathChars ==
    (NotesMd :> class_notes \o <<"/","a",".","m","d">>)
    @@ (NotesPng :> class_notes \o <<"/","b",".","p","n","g">>)
    @@ (NotesIndex :> class_notes \o <<"/","0","0","_","i","n","d","e","x",".","m","d">>)
    @@ (NotesLog :> class_notes \o <<"/","x",".","l","o","g">>)
    @@ (NotesSwp :> class_notes \o <<"/","a",".","s","w","p">>)
    @@ (FrameworkPy :> <<"f","r","a","m","e","w","o","r","k","_","c","o","d","e","/",
                         "s","c","r","i","p","t","s","/","m",".","p","y">>)
    @@ (HugoIndex :> <<"h","u","g","o","_","g","e","n","e","r","a","t","e","d","/",
                       "p","u","b","l","i","c","/","i","n","d","e","x",".","h","t","m","l">>)

\* str(rel_path)
Str(rel_path) == PathChars[rel_path]

\* the two enumeration orders of the tree walk that the model considers
WalkForward ==
    << NotesMd, NotesPng, NotesIndex, NotesLog, NotesSwp, FrameworkPy, HugoIndex >>
WalkBackward == [i \in 1..Len(WalkForward) |-> WalkForward[Len(WalkForward) + 1 - i]]
WalkOrders == { WalkForward, WalkBackward }

Paths == { WalkForward[i] : i \in 1..Len(WalkForward) }

\* the course material and the framework code; the generated site is the rest
CoursePaths == Paths \ { HugoIndex }

\* should_sync_file(rel_path, exclusion_patterns) as the scanner calls it, with
\* exclusion_patterns = get_all_exclusion_patterns(), tabulated per path
Verdict == [p \in Paths |-> should_sync_file(Str(p), get_all_exclusion_patterns)]

\* Path.suffix: the last '.' of the final component, unless it starts the name
RECURSIVE LastIndex(_, _, _)
LastIndex(s, ch, i) ==
    IF i = 0 THEN 0 ELSE IF s[i] = ch THEN i ELSE LastIndex(s, ch, i - 1)

PathName(path_str) ==
    SubSeq(path_str, LastIndex(path_str, "/", Len(path_str)) + 1, Len(path_str))

PathSuffix(path_str) ==
    LET name == PathName(path_str)
        dot  == LastIndex(name, ".", Len(name))
    IN  IF dot > 1 /\ dot < Len(name) THEN SubSeq(name, dot, Len(name)) ELSE <<>>

\* target_path.suffix in ['.md', '.txt', '.html', '.qmd'], tabulated per path
TextEligible == [p \in Paths |-> PathSuffix(Str(p)) \in TextSuffixes]

\* is the path inside root/content_dir (what content_path.rglob('*') walks)
UnderContentDir(path_str) ==
    \E k \in 1..Len(CONTENT_DIRECTORIES) :
        StartsWith(path_str, CONTENT_DIRECTORIES[k] \o <<"/">>)

\* the walks of the scanner taken from the tree roots (rglob on professor_path
\* and student_path) instead of from the content directories
ContentPaths_WholeTree == Paths

\* the paths of the model that the two walks of the scanner can yield
ContentPaths == { p \in Paths : UnderContentDir(Str(p)) }

\* is_framework_file(rel_path) as perform_sync calls it, tabulated per path
IsFramework == [p \in Paths |-> is_framework_file(Str(p))]

(***************************************************************************)
(* Files and contents                                                      *)
(***************************************************************************)
NoFile == [exists |-> FALSE, content |-> <<>>, mtime |-> 0]

File(content, mtime) == [exists |-> TRUE, content |-> content, mtime |-> mtime]

KEEP_START == "<!-- KEEP:START -->"
KEEP_END == "<!-- KEEP:END -->"

\* a byte that is not valid UTF-8
BadByte == "\\xff"

Whitespace == {" ", "\n", "\t"}

\* f.read() with encoding='utf-8' raises UnicodeDecodeError on such content
Decodable(content) == \A i \in 1..Len(content) : content[i] # BadByte

(***************************************************************************)
(* Keep-block codec                                                        *)
(***************************************************************************)
\* index of the first occurrence of token at or after position i, 0 if none
RECURSIVE Find(_, _, _)
Find(content, token, i) ==
    IF i > Len(content) THEN 0
    ELSE IF content[i] = token THEN i ELSE Find(content, token, i + 1)

RECURSIVE FindAllFrom(_, _)
\* re.findall(r'<!-- KEEP:START -->(.*?)<!-- KEEP:END -->', content, re.DOTALL)
\* scanning from position i: leftmost start marker, shortest span to an end
\* marker, resume after that end marker
FindAllFrom(content, i) ==
    LET s == Find(content, KEEP_START, i)
        e == IF s = 0 THEN 0 ELSE Find(content, KEEP_END, s + 1)
    IN  IF s = 0 \/ e = 0 THEN <<>>
        ELSE <<SubSeq(content, s + 1, e - 1)>> \o FindAllFrom(content, e + 1)

RECURSIVE FindLast(_, _, _)
\* index of the last occurrence of token at or before position i, 0 if none
FindLast(content, token, i) ==
    IF i < 1 THEN 0
    ELSE IF content[i] = token THEN i ELSE FindLast(content, token, i - 1)

\* preserve_keep_blocks with the greedy group (.*) in place of (.*?): one
\* span from the first start marker to the last end marker after it
preserve_keep_blocks_Greedy(content) ==
    LET s == Find(content, KEEP_START, 1)
        e == FindLast(content, KEEP_END, Len(content))
    IN  IF s = 0 \/ e < s THEN <<>> ELSE <<SubSeq(content, s + 1, e - 1)>>

preserve_keep_blocks(content) == FindAllFrom(content, 1)

RECURSIVE LStrip(_)
LStrip(s) == IF s # <<>> /\ Head(s) \in Whitespace THEN LStrip(Tail(s)) ELSE s

RECURSIVE RStrip(_)
RStrip(s) ==
    IF s # <<>> /\ s[Len(s)] \in Whitespace THEN RStrip(SubSeq(s, 1, Len(s) - 1)) ELSE s

\* str.strip()
Strip(s) == RStrip(LStrip(s))

Digits == <<"0","1","2","3","4","5","6","7","8","9">>

RECURSIVE Decimal(_)
\* the f-string rendering of a positive integer
Decimal(n) ==
    IF n < 10 THEN <<Digits[n + 1]>>
    ELSE Decimal(n \div 10) \o <<Digits[(n % 10) + 1]>>

PreservedHeader == <<"\n", "\n", "<!-- PRESERVED CONTENT FROM PREVIOUS VERSION -->", "\n">>

BlockBegin(i) == <<"\n", "<!-- PRESERVED BLOCK ">> \o Decimal(i) \o <<" -->", "\n">>

BlockEnd(i) == <<"\n", "<!-- END PRESERVED BLOCK ">> \o Decimal(i) \o <<" -->", "\n">>

RECURSIVE PreservedBlocks(_, _)
\* the enumerate(keep_blocks, 1) loop from block number i on
PreservedBlocks(keep_blocks, i) ==
    IF i > Len(keep_blocks) THEN <<>>
    ELSE BlockBegin(i) \o Strip(keep_blocks[i]) \o BlockEnd(i)
         \o PreservedBlocks(keep_blocks, i + 1)

apply_keep_blocks(new_content, keep_blocks) ==
    IF keep_blocks = <<>> THEN new_content
    ELSE new_content \o PreservedHeader \o PreservedBlocks(keep_blocks, 1)

(***************************************************************************)
(* Change scanner                                                          *)
(***************************************************************************)
EmptyChanges ==
    [new_files |-> <<>>, updated_files |-> <<>>, unchanged_files |-> <<>>,
     student_only_files |-> <<>>, excluded_files |-> <<>>]

\* ClassifyProfFile without the exclusion check
ClassifyProfFile_NoExclusion(ch, rel_path, prof_, stud_) ==
    IF ~stud_[rel_path].exists
    THEN [ch EXCEPT !.new_files = Append(@, rel_path)]
    ELSE IF stud_[rel_path].mtime < prof_[rel_path].mtime
    THEN [ch EXCEPT !.updated_files = Append(@, rel_path)]
    ELSE [ch EXCEPT !.unchanged_files = Append(@, rel_path)]

\* ClassifyProfFile without the 'continue' after recording an excluded file
ClassifyProfFile_NoContinue(ch, rel_path, prof_, stud_) ==
    LET v == Verdict[rel_path]
        ch1 == IF ~v.sync
               THEN [ch EXCEPT !.excluded_files = Append(@, <<rel_path, v>>)]
               ELSE ch
    IN  IF ~stud_[rel_path].exists
        THEN [ch1 EXCEPT !.new_files = Append(@, rel_path)]
        ELSE IF stud_[rel_path].mtime < prof_[rel_path].mtime
        THEN [ch1 EXCEPT !.updated_files = Append(@, rel_path)]
        ELSE [ch1 EXCEPT !.unchanged_files = Append(@, rel_path)]

\* ClassifyProfFile comparing the modification times with <= instead of <
ClassifyProfFile_Lte(ch, rel_path, prof_, stud_) ==
    LET v == Verdict[rel_path] IN
    IF ~v.sync
    THEN [ch EXCEPT !.excluded_files = Append(@, <<rel_path, v>>)]
    ELSE IF ~stud_[rel_path].exists
    THEN [ch EXCEPT !.new_files = Append(@, rel_path)]
    ELSE IF stud_[rel_path].mtime <= prof_[rel_path].mtime
    THEN [ch EXCEPT !.updated_files = Append(@, rel_path)]
    ELSE [ch EXCEPT !.unchanged_files = Append(@, rel_path)]

\* ClassifyProfFile taking any difference of the modification times as an update
ClassifyProfFile_Neq(ch, rel_path, prof_, stud_) ==
    LET v == Verdict[rel_path] IN
    IF ~v.sync
    THEN [ch EXCEPT !.excluded_files = Append(@, <<rel_path, v>>)]
    ELSE IF ~stud_[rel_path].exists
    THEN [ch EXCEPT !.new_files = Append(@, rel_path)]
    ELSE IF stud_[rel_path].mtime # prof_[rel_path].mtime
    THEN [ch EXCEPT !.updated_files = Append(@, rel_path)]
    ELSE [ch EXCEPT !.unchanged_files = Append(@, rel_path)]

\* the body of the first loop for one professor file
ClassifyProfFile(ch, rel_path, prof_, stud_) ==
    LET v == Verdict[rel_path] IN
    IF ~v.sync
    THEN [ch EXCEPT !.excluded_files = Append(@, <<rel_path, v>>)]
    ELSE IF ~stud_[rel_path].exists
    THEN [ch EXCEPT !.new_files = Append(@, rel_path)]
    ELSE IF stud_[rel_path].mtime < prof_[rel_path].mtime
    THEN [ch EXCEPT !.updated_files = Append(@, rel_path)]
    ELSE [ch EXCEPT !.unchanged_files = Append(@, rel_path)]

\* the body of the second loop for one student file
ClassifyStudFile(ch, rel_path, prof_, stud_) ==
    LET v == Verdict[rel_path] IN
    IF v.sync /\ ~prof_[rel_path].exists
    THEN [ch EXCEPT !.student_only_files = Append(@, rel_path)]
    ELSE ch

RECURSIVE ScanProf(_, _, _, _, _)
ScanProf(ch, walk, i, prof_, stud_) ==
    IF i > Len(walk) THEN ch
    ELSE IF walk[i] \in ContentPaths /\ prof_[walk[i]].exists
         THEN ScanProf(ClassifyProfFile(ch, walk[i], prof_, stud_), walk, i + 1, prof_, stud_)
         ELSE ScanProf(ch, walk, i + 1, prof_, stud_)

RECURSIVE ScanStud(_, _, _, _, _)
ScanStud(ch, walk, i, prof_, stud_) ==
    IF i > Len(walk) THEN ch
    ELSE IF walk[i] \in ContentPaths /\ stud_[walk[i]].exists
         THEN ScanStud(ClassifyStudFile(ch, walk[i], prof_, stud_), walk, i + 1, prof_, stud_)
         ELSE ScanStud(ch, walk, i + 1, prof_, stud_)

\* walk: the order in which rglob yields the files of a tree
scan_directory_changes(prof_, stud_, walk) ==
    ScanStud(ScanProf(EmptyChanges, walk, 1, prof_, stud_), walk, 1, prof_, stud_)

(***************************************************************************)
(* Change scanner under failing I/O                                        *)
(***************************************************************************)
RECURSIVE ScanProfIO(_, _, _, _, _, _)
\* the first loop when stat of the student's copy of fault_.path fails with
\* an OSError that pathlib does not swallow (EACCES): student_file.exists()
\* of line 172 raises it, after the exclusion check of lines 163-168; the
\* loop has no try block.  acc carries the ChangeSet and whether the
\* exception left the loop.
ScanProfIO(acc, walk, i, prof_, stud_, fault_) ==
    IF i > Len(walk) \/ acc.raised THEN acc
    ELSE IF walk[i] \in ContentPaths /\ prof_[walk[i]].exists
         THEN IF walk[i] = fault_.path /\ fault_.kind = "stat" /\ Verdict[walk[i]].sync
              THEN [acc EXCEPT !.raised = TRUE]
              ELSE ScanProfIO([acc EXCEPT !.ch = ClassifyProfFile(@, walk[i], prof_, stud_)],
                              walk, i + 1, prof_, stud_, fault_)
         ELSE ScanProfIO(acc, walk, i + 1, prof_, stud_, fault_)

RECURSIVE ScanStudIO(_, _, _, _, _, _)
\* the second loop: student_file.is_file() of line 182 stats every entry the
\* walk of the student tree yields
ScanStudIO(acc, walk, i, prof_, stud_, fault_) ==
    IF i > Len(walk) \/ acc.raised THEN acc
    ELSE IF walk[i] \in ContentPaths /\ stud_[walk[i]].exists
         THEN IF walk[i] = fault_.path /\ fault_.kind = "stat"
              THEN [acc EXCEPT !.raised = TRUE]
              ELSE ScanStudIO([acc EXCEPT !.ch = ClassifyStudFile(@, walk[i], prof_, stud_)],
                              walk, i + 1, prof_, stud_, fault_)
         ELSE ScanStudIO(acc, walk, i + 1, prof_, stud_, fault_)

scan_directory_changes_io(prof_, stud_, walk, fault_) ==
    ScanStudIO(ScanProfIO([ch |-> EmptyChanges, raised |-> FALSE],
                          walk, 1, prof_, stud_, fault_),
               walk, 1, prof_, stud_, fault_)

(***************************************************************************)
(* Sync executor                                                           *)
(***************************************************************************)
\* returns the result string and the student tree after the call; clock is
\* the time at which the call writes
\* sync_file copying with shutil.copy, which does not carry the source's
\* modification time over
sync_file_CopyNoStat(prof_, stud_, rel_path, force_update, clock) ==
    LET source == prof_[rel_path]
        target == stud_[rel_path]
        keep_blocks ==
            IF /\ target.exists
               /\ TextEligible[rel_path]
               /\ Decodable(target.content)
            THEN preserve_keep_blocks(target.content)
            ELSE <<>>
        written ==
            IF keep_blocks # <<>>
            THEN File(apply_keep_blocks(source.content, keep_blocks), clock)
            ELSE File(source.content, clock)
        failed ==
            \/ ~source.exists
            \/ (keep_blocks # <<>> /\ ~Decodable(source.content))
        after == IF failed THEN stud_ ELSE [stud_ EXCEPT ![rel_path] = written]
    IN  IF target.exists /\ ~force_update
        THEN [result |-> "skipped", stud |-> stud_]
        ELSE IF failed
        THEN [result |-> "error", stud |-> stud_]
        ELSE [result |-> IF after[rel_path].exists THEN "updated" ELSE "created",
              stud |-> after]

\* sync_file looking for KEEP blocks in every existing target, whatever its
\* suffix
sync_file_AnySuffix(prof_, stud_, rel_path, force_update, clock) ==
    LET source == prof_[rel_path]
        target == stud_[rel_path]
        keep_blocks ==
            IF /\ target.exists
               /\ Decodable(target.content)
            THEN preserve_keep_blocks(target.content)
            ELSE <<>>
        written ==
            IF keep_blocks # <<>>
            THEN File(apply_keep_blocks(source.content, keep_blocks), clock)
            ELSE File(source.content, source.mtime)
        failed ==
            \/ ~source.exists
            \/ (keep_blocks # <<>> /\ ~Decodable(source.content))
        after == IF failed THEN stud_ ELSE [stud_ EXCEPT ![rel_path] = written]
    IN  IF target.exists /\ ~force_update
        THEN [result |-> "skipped", stud |-> stud_]
        ELSE IF failed
        THEN [result |-> "error", stud |-> stud_]
        ELSE [result |-> IF after[rel_path].exists THEN "updated" ELSE "created",
              stud |-> after]

\* sync_file taking a UnicodeDecodeError of the target read as a failure of
\* the call
sync_file_DecodeError(prof_, stud_, rel_path, force_update, clock) ==
    LET source == prof_[rel_path]
        target == stud_[rel_path]
        keep_blocks ==
            IF /\ target.exists
               /\ TextEligible[rel_path]
               /\ Decodable(target.content)
            THEN preserve_keep_blocks(target.content)
            ELSE <<>>
        written ==
            IF keep_blocks # <<>>
            THEN File(apply_keep_blocks(source.content, keep_blocks), clock)
            ELSE File(source.content, source.mtime)
        failed ==
            \/ ~source.exists
            \/ (target.exists /\ TextEligible[rel_path] /\ ~Decodable(target.content))
            \/ (keep_blocks # <<>> /\ ~Decodable(source.content))
        after == IF failed THEN stud_ ELSE [stud_ EXCEPT ![rel_path] = written]
    IN  IF target.exists /\ ~force_update
        THEN [result |-> "skipped", stud |-> stud_]
        ELSE IF failed
        THEN [result |-> "error", stud |-> stud_]
        ELSE [result |-> IF after[rel_path].exists THEN "updated" ELSE "created",
              stud |-> after]

sync_file(prof_, stud_, rel_path, force_update, clock) ==
    LET source == prof_[rel_path]
        target == stud_[rel_path]
        keep_blocks ==
            IF /\ target.exists
               /\ TextEligible[rel_path]
               /\ Decodable(target.content)
            THEN preserve_keep_blocks(target.content)
            ELSE <<>>
        written ==
            IF keep_blocks # <<>>
            THEN File(apply_keep_blocks(source.content, keep_blocks), clock)
            ELSE File(source.content, source.mtime)
        failed ==
            \/ ~source.exists
            \/ (keep_blocks # <<>> /\ ~Decodable(source.content))
        after == IF failed THEN stud_ ELSE [stud_ EXCEPT ![rel_path] = written]
    IN  IF target.exists /\ ~force_update
        THEN [result |-> "skipped", stud |-> stud_]
        ELSE IF failed
        THEN [result |-> "error", stud |-> stud_]
        ELSE [result |-> IF after[rel_path].exists THEN "updated" ELSE "created",
              stud |-> after]

\* all_files that also takes the unchanged files
all_files_WithUnchanged(ch) == ch.new_files \o ch.updated_files \o ch.unchanged_files

all_files(ch) == ch.new_files \o ch.updated_files

EmptyResults ==
    [created |-> 0, updated |-> 0, skipped |-> 0, errors |-> 0, framework_forced |-> 0]

\* results[key] = results.get(key, 0) + 1
Bump(res, key) ==
    IF key \in DOMAIN res THEN [res EXCEPT ![key] = @ + 1] ELSE res @@ (key :> 1)

RECURSIVE SyncLoop_ListOnly(_, _, _, _, _, _)
\* the for-loop of perform_sync forcing only the files of force_update_list,
\* not the framework files
SyncLoop_ListOnly(acc, files, i, prof_, force_update_list, clock) ==
    IF i > Len(files) THEN acc
    ELSE LET rel_path == files[i]
             is_framework == IsFramework[rel_path]
             force_update == rel_path \in force_update_list
             r == sync_file(prof_, acc.stud, rel_path, force_update, clock)
             res1 == IF is_framework /\ r.result \in {"updated", "created"}
                     THEN Bump(acc.results, "framework_forced")
                     ELSE acc.results
         IN  SyncLoop_ListOnly([stud |-> r.stud,
                       results |-> Bump(res1, r.result),
                       log |-> Append(acc.log, [path |-> rel_path, result |-> r.result])],
                      files, i + 1, prof_, force_update_list, clock)

RECURSIVE SyncLoop(_, _, _, _, _, _)
\* the for-loop of perform_sync from file number i on; acc carries the student
\* tree, the counters and the per-file outcomes so far
SyncLoop(acc, files, i, prof_, force_update_list, clock) ==
    IF i > Len(files) THEN acc
    ELSE LET rel_path == files[i]
             is_framework == IsFramework[rel_path]
             force_update == rel_path \in force_update_list \/ is_framework
             r == sync_file(prof_, acc.stud, rel_path, force_update, clock)
             res1 == IF is_framework /\ r.result \in {"updated", "created"}
                     THEN Bump(acc.results, "framework_forced")
                     ELSE acc.results
         IN  SyncLoop([stud |-> r.stud,
                       results |-> Bump(res1, r.result),
                       log |-> Append(acc.log, [path |-> rel_path, result |-> r.result])],
                      files, i + 1, prof_, force_update_list, clock)

\* perform_sync as a mirroring sync: files the professor does not have are
\* removed from the student tree after the loop
perform_sync_Mirror(prof_, stud_, ch, force_update_list, clock) ==
    LET r == SyncLoop([stud |-> stud_, results |-> EmptyResults, log |-> <<>>],
                      all_files(ch), 1, prof_, force_update_list, clock)
    IN  [r EXCEPT !.stud =
            [p \in DOMAIN r.stud |->
                IF \E i \in 1..Len(ch.student_only_files) : ch.student_only_files[i] = p
                THEN NoFile ELSE r.stud[p]]]

\* perform_sync leaving the loop at the first file that sync_file skips
\* ('break' in place of going on to the next file)
perform_sync_StopAtSkip(prof_, stud_, ch, force_update_list, clock) ==
    LET files == all_files(ch)
        r == SyncLoop([stud |-> stud_, results |-> EmptyResults, log |-> <<>>],
                      files, 1, prof_, force_update_list, clock)
        skips == { i \in 1..Len(r.log) : r.log[i].result = "skipped" }
        last == IF skips = {} THEN Len(files)
                ELSE CHOOSE i \in skips : \A j \in skips : i <= j
    IN  SyncLoop([stud |-> stud_, results |-> EmptyResults, log |-> <<>>],
                 SubSeq(files, 1, last), 1, prof_, force_update_list, clock)

perform_sync(prof_, stud_, ch, force_update_list, clock) ==
    SyncLoop([stud |-> stud_, results |-> EmptyResults, log |-> <<>>],
             all_files(ch), 1, prof_, force_update_list, clock)

(***************************************************************************)
(* Sync executor under failing I/O                                         *)
(***************************************************************************)
\* the I/O calls of sync_file that can fail with an OSError: line 218
\* (parent.mkdir), line 228 (open of the existing target for reading), lines
\* 239 and 247 (reading the source), lines 243 and 247 (writing the target)
ApplyFaultKinds == { "mkdir", "read_target", "read_source", "write_target" }

\* sync_file when the I/O call named by failing raises an OSError for this
\* file ("none": no call fails).  Lines 218 and 225-232 are outside the try
\* block and line 231 catches UnicodeDecodeError only, so an OSError there
\* leaves sync_file as an exception: result "raised".  The try block of lines
\* 235-253 turns any exception into the result "error".
sync_file_io(prof_, stud_, rel_path, force_update, clock, failing) ==
    LET target == stud_[rel_path] IN
    IF failing = "mkdir"
    THEN [result |-> "raised", stud |-> stud_]
    ELSE IF target.exists /\ ~force_update
    THEN [result |-> "skipped", stud |-> stud_]
    ELSE IF failing = "read_target" /\ target.exists /\ TextEligible[rel_path]
    THEN [result |-> "raised", stud |-> stud_]
    ELSE IF failing \in {"read_source", "write_target"}
    THEN [result |-> "error", stud |-> stud_]
    ELSE sync_file(prof_, stud_, rel_path, force_update, clock)

RECURSIVE SyncLoopIO(_, _, _, _, _, _, _)
\* the for-loop of perform_sync from file number i on when the I/O of
\* fault_.path fails as fault_.kind says; the loop has no try block, so an
\* exception leaving sync_file ends it: acc.raised
SyncLoopIO(acc, files, i, prof_, force_update_list, clock, fault_) ==
    IF i > Len(files) THEN acc
    ELSE LET rel_path == files[i]
             is_framework == IsFramework[rel_path]
             force_update == rel_path \in force_update_list \/ is_framework
             failing == IF rel_path = fault_.path THEN fault_.kind ELSE "none"
             r == sync_file_io(prof_, acc.stud, rel_path, force_update, clock, failing)
             res1 == IF is_framework /\ r.result \in {"updated", "created"}
                     THEN Bump(acc.results, "framework_forced")
                     ELSE acc.results
         IN  IF r.result = "raised"
             THEN [acc EXCEPT !.raised = TRUE]
             ELSE SyncLoopIO([stud |-> r.stud,
                              results |-> Bump(res1, r.result),
                              log |-> Append(acc.log, [path |-> rel_path, result |-> r.result]),
                              raised |-> FALSE],
                             files, i + 1, prof_, force_update_list, clock, fault_)

perform_sync_io(prof_, stud_, ch, force_update_list, clock, fault_) ==
    SyncLoopIO([stud |-> stud_, results |-> EmptyResults, log |-> <<>>, raised |-> FALSE],
               all_files(ch), 1, prof_, force_update_list, clock, fault_)

\* sync_file cut short by the end of the process after the target's bytes
\* are written and before its metadata is set: shutil.copy2 (line 247) is
\* copyfile followed by copystat, so the target holds the source's bytes with
\* the time of the write; the merge of lines 238-244 sets no metadata, its
\* file is the finished one.  Returns the student tree.
sync_file_cut(prof_, stud_, rel_path, force_update, clock) ==
    LET r == sync_file(prof_, stud_, rel_path, force_update, clock) IN
    IF r.result \in {"skipped", "error"} THEN stud_
    ELSE [r.stud EXCEPT ![rel_path].mtime = clock]

(***************************************************************************)
(* Inputs of the model                                                     *)
(***************************************************************************)
\* what the professor writes into a file
ProfBodies == { <<"x">>, <<"y">> }

\* what the student writes into a file: no block, one block with surrounding
\* whitespace, two blocks
StudBodies ==
    { <<"n">>,
      <<"n", KEEP_START, "\n", "k", "\n", KEEP_END>>,
      <<KEEP_START, "k", KEEP_END, "m", KEEP_START, "j", " ", KEEP_END>> }

ProfContentsOf(p) == IF p = NotesMd THEN ProfBodies ELSE { <<"x">> }

StudContentsOf(p) == IF p = NotesMd THEN StudBodies ELSE { <<KEEP_START, "k", KEEP_END>> }

\* force_update_list arguments a caller passes; main passes none
ForceLists == { {}, { NotesMd, NotesPng } }

\* ChangeSets a caller hands to perform_sync without scanning
DirectChangeSets ==
    { [EmptyChanges EXCEPT !.new_files = <<NotesPng>>,
                           !.updated_files = <<NotesMd, FrameworkPy>>] }

\* rel_path arguments should_sync_file is called with on its own: the paths
\* of the trees and paths that meet the directory rules, a Windows separator
\* and names that only contain a directory pattern's name
MatchChars ==
    PathChars
    @@ ("build/x" :> <<"b","u","i","l","d","/","x">>)
    @@ ("rebuild/x" :> <<"r","e","b","u","i","l","d","/","x">>)
    @@ ("builds/x" :> <<"b","u","i","l","d","s","/","x">>)
    @@ ("a/build/x" :> <<"a","/","b","u","i","l","d","/","x">>)
    @@ (".vscode/a.log" :> <<".","v","s","c","o","d","e","/","a",".","l","o","g">>)
    @@ ("my.vscode/s" :> <<"m","y",".","v","s","c","o","d","e","/","s">>)
    @@ ("__pycache__/m.pyc" :> <<"_","_","p","y","c","a","c","h","e","_","_","/","m",".","p","y","c">>)
    @@ ("a\\b.log" :> <<"a","\\","b",".","l","o","g">>)

MatchPaths == DOMAIN MatchChars

\* patterns a caller puts into an exclusion_patterns list of its own
PatternPool ==
    { <<"b","u","i","l","d","/">>,
      <<"b","u","i","l","d","/","*","*">>,
      <<"*",".","l","o","g">>,
      <<".","v","s","c","o","d","e","/">> }

EmptyTree == [p \in Paths |-> NoFile]

\* no I/O call fails
NoFault == [path |-> "", kind |-> "none"]

\* no call of should_sync_file has been made
NoPath == ""

\* the process that runs main has not ended
NotExited == -1

(***************************************************************************)
(* State machine                                                           *)
(***************************************************************************)
Init ==
    /\ prof = EmptyTree
    /\ stud = EmptyTree
    /\ now = 0
    /\ pc = "idle"
    /\ changes = EmptyChanges
    /\ results = EmptyResults
    /\ log = <<>>
    /\ pre = EmptyTree
    /\ force_list = {}
    /\ origin = "scan"
    /\ runs = 0
    /\ edits = 0
    /\ fault = NoFault
    /\ start = EmptyTree
    /\ m_path = NoPath
    /\ m_patterns = <<>>
    /\ m_res = Include
    /\ k_content = <<>>
    /\ k_new = <<>>
    /\ k_blocks = <<>>
    /\ k_out = <<>>
    /\ f_path = NoPath
    /\ f_res = <<>>
    /\ status = NotExited

\* an edit of either tree ends whatever run was in progress
Edited ==
    /\ edits < MaxEdits
    /\ edits' = edits + 1
    /\ pc' = "idle"
    /\ changes' = EmptyChanges
    /\ results' = EmptyResults
    /\ log' = <<>>
    /\ pre' = EmptyTree
    /\ force_list' = {}
    /\ origin' = "scan"
    /\ runs' = 0
    /\ now' = now
    /\ fault' = NoFault
    /\ start' = EmptyTree
    /\ UNCHANGED <<m_path, m_patterns, m_res, codec_vars, framework_vars>>
    /\ status' = NotExited

ProfWrite(p, c) ==
    /\ Edited
    /\ prof' = [prof EXCEPT ![p] = File(c, now)]
    /\ stud' = stud

ProfDelete(p) ==
    /\ Edited
    /\ prof[p].exists
    /\ prof' = [prof EXCEPT ![p] = NoFile]
    /\ stud' = stud

StudWrite(p, c) ==
    /\ Edited
    /\ stud' = [stud EXCEPT ![p] = File(c, now)]
    /\ prof' = prof

StudDelete(p) ==
    /\ Edited
    /\ stud[p].exists
    /\ stud' = [stud EXCEPT ![p] = NoFile]
    /\ prof' = prof

Tick ==
    /\ now < MaxTime
    /\ now' = now + 1
    /\ UNCHANGED <<prof, stud, pc, changes, results, log, pre, force_list, origin, runs, edits>>
    /\ UNCHANGED <<fault, start, m_path, m_patterns, m_res, codec_vars, framework_vars, status>>

\* main, line 390: changes = scan_directory_changes(professor_dir, student_dir)
Scan(walk) ==
    /\ changes' = scan_directory_changes(prof, stud, walk)
    /\ pc' = "scanned"
    /\ origin' = "scan"
    /\ results' = EmptyResults
    /\ log' = <<>>
    /\ pre' = EmptyTree
    /\ force_list' = {}
    /\ UNCHANGED <<prof, stud, now, runs, edits>>
    /\ fault' = NoFault
    /\ start' = EmptyTree
    /\ UNCHANGED <<m_path, m_patterns, m_res, codec_vars, framework_vars>>
    /\ status' = NotExited

\* perform_sync on the ChangeSet the scan returned
ApplyScanned(fl) ==
    /\ pc = "scanned"
    /\ LET r == perform_sync(prof, stud, changes, fl, now) IN
        /\ stud' = r.stud
        /\ results' = r.results
        /\ log' = r.log
    /\ pre' = stud
    /\ force_list' = fl
    /\ pc' = "applied"
    /\ runs' = IF runs < MaxRuns THEN runs + 1 ELSE runs
    /\ UNCHANGED <<prof, now, changes, origin, edits>>
    /\ fault' = NoFault
    /\ start' = EmptyTree
    /\ UNCHANGED <<m_path, m_patterns, m_res, codec_vars, framework_vars, status>>

\* perform_sync called by another caller with a ChangeSet of its own
ApplyDirect(ch, fl) ==
    /\ pc = "idle"
    /\ LET r == perform_sync(prof, stud, ch, fl, now) IN
        /\ stud' = r.stud
        /\ results' = r.results
        /\ log' = r.log
    /\ changes' = ch
    /\ pre' = stud
    /\ force_list' = fl
    /\ origin' = "direct"
    /\ pc' = "applied"
    /\ runs' = 0
    /\ UNCHANGED <<prof, now, edits>>
    /\ fault' = NoFault
    /\ start' = EmptyTree
    /\ UNCHANGED <<m_path, m_patterns, m_res, codec_vars, framework_vars, status>>

\* main, line 390, while stat of the student's copy of one file fails; an
\* exception leaves scan_directory_changes without a ChangeSet
ScanFaulty(walk, f) ==
    /\ f.kind = "stat"
    /\ f.path \in ContentPaths
    /\ \/ prof[f.path].exists /\ Verdict[f.path].sync
       \/ stud[f.path].exists
    /\ LET r == scan_directory_changes_io(prof, stud, walk, f) IN
        /\ changes' = IF r.raised THEN EmptyChanges ELSE r.ch
        /\ pc' = IF r.raised THEN "raised" ELSE "scanned"
    /\ origin' = "scan"
    /\ results' = EmptyResults
    /\ log' = <<>>
    /\ pre' = EmptyTree
    /\ force_list' = {}
    /\ fault' = f
    /\ UNCHANGED <<prof, stud, now, runs, edits>>
    /\ UNCHANGED <<start, m_path, m_patterns, m_res, codec_vars, framework_vars>>
    /\ status' = NotExited

\* does perform_sync reach the failing call of f for f.path
FaultReached(f, fl) ==
    LET forced == f.path \in fl \/ IsFramework[f.path] IN
    CASE f.kind = "mkdir" -> TRUE
      [] f.kind = "read_target" -> stud[f.path].exists /\ forced /\ TextEligible[f.path]
      [] OTHER -> ~stud[f.path].exists \/ forced

\* perform_sync on the scanned ChangeSet while one I/O call of sync_file
\* fails for one of the files it processes
ApplyFaulty(fl, f) ==
    /\ pc = "scanned"
    /\ f.kind \in ApplyFaultKinds
    /\ \E i \in 1..Len(all_files(changes)) : all_files(changes)[i] = f.path
    /\ FaultReached(f, fl)
    /\ LET r == perform_sync_io(prof, stud, changes, fl, now, f) IN
        /\ stud' = r.stud
        /\ results' = r.results
        /\ log' = r.log
        /\ pc' = IF r.raised THEN "raised" ELSE "applied"
    /\ pre' = stud
    /\ force_list' = fl
    /\ fault' = f
    /\ runs' = IF runs < MaxRuns THEN runs + 1 ELSE runs
    /\ UNCHANGED <<prof, now, changes, origin, edits>>
    /\ UNCHANGED <<start, m_path, m_patterns, m_res, codec_vars, framework_vars, status>>

\* perform_sync on the scanned ChangeSet, ended by the end of the process
\* after k files; with mid, file k+1 is cut short inside sync_file
ApplyInterrupted(fl, k, mid) ==
    /\ pc = "scanned"
    /\ k < Len(all_files(changes))
    /\ LET files == all_files(changes)
           r == SyncLoop([stud |-> stud, results |-> EmptyResults, log |-> <<>>],
                         SubSeq(files, 1, k), 1, prof, fl, now)
           rel_path == files[k + 1]
           force_update == rel_path \in fl \/ IsFramework[rel_path]
       IN  /\ stud' = IF mid THEN sync_file_cut(prof, r.stud, rel_path, force_update, now)
                             ELSE r.stud
           /\ results' = r.results
           /\ log' = r.log
           /\ fault' = [path |-> IF mid THEN rel_path ELSE "", kind |-> "interrupt"]
    /\ start' = stud
    /\ pre' = stud
    /\ force_list' = fl
    /\ pc' = "interrupted"
    /\ UNCHANGED <<prof, now, changes, origin, runs, edits>>
    /\ UNCHANGED <<m_path, m_patterns, m_res, codec_vars, framework_vars, status>>

\* main run again after the interruption: line 390
RetryScan(walk) ==
    /\ pc = "interrupted"
    /\ changes' = scan_directory_changes(prof, stud, walk)
    /\ pc' = "rescanned"
    /\ UNCHANGED <<prof, stud, now, results, log, pre, force_list, origin, runs, edits>>
    /\ UNCHANGED <<fault, start, m_path, m_patterns, m_res, codec_vars, framework_vars>>
    /\ status' = NotExited

\* main run again after the interruption: line 420, with the arguments of
\* the interrupted run
RetryApply ==
    /\ pc = "rescanned"
    /\ LET r == perform_sync(prof, stud, changes, force_list, now) IN
        /\ stud' = r.stud
        /\ results' = r.results
        /\ log' = r.log
    /\ pre' = stud
    /\ pc' = "recovered"
    /\ UNCHANGED <<prof, now, changes, force_list, origin, runs, edits>>
    /\ UNCHANGED <<fault, start, m_path, m_patterns, m_res, codec_vars, framework_vars, status>>

\* a caller extends its exclusion_patterns list
AddPattern(pattern) ==
    /\ Len(m_patterns) < MaxPatterns
    /\ m_patterns' = Append(m_patterns, pattern)
    /\ m_res' = Include
    /\ pc' = "idle"
    /\ UNCHANGED <<prof, stud, now, changes, results, log, pre, force_list, origin, runs,
                   edits, fault, start, m_path, codec_vars, framework_vars, status>>

\* line 150: exclusion_patterns = get_all_exclusion_patterns()
UseProgramPatterns ==
    /\ m_patterns = <<>>
    /\ m_patterns' = get_all_exclusion_patterns
    /\ m_res' = Include
    /\ pc' = "idle"
    /\ UNCHANGED <<prof, stud, now, changes, results, log, pre, force_list, origin, runs,
                   edits, fault, start, m_path, codec_vars, framework_vars, status>>

\* lines 165 and 191: should_sync_file(rel_path, exclusion_patterns)
CallMatcher ==
    /\ pc = "idle"
    /\ m_res' = should_sync_file(MatchChars[m_path], m_patterns)
    /\ pc' = "matched"
    /\ UNCHANGED <<prof, stud, now, changes, results, log, pre, force_list, origin, runs,
                   edits, fault, start, m_path, m_patterns,
                   codec_vars, framework_vars, status>>

Next ==
    \/ \E p \in CoursePaths : \E c \in ProfContentsOf(p) : ProfWrite(p, c)
    \/ \E p \in CoursePaths : ProfDelete(p)
    \/ \E p \in CoursePaths : \E c \in StudContentsOf(p) : StudWrite(p, c)
    \/ \E p \in CoursePaths : StudDelete(p)
    \/ Tick
    \/ \E walk \in WalkOrders : Scan(walk)
    \/ \E fl \in ForceLists : ApplyScanned(fl)
    \/ \E ch \in DirectChangeSets : \E fl \in ForceLists : ApplyDirect(ch, fl)

Spec == Init /\ [][Next]_vars

\* the runs of main in which one I/O call fails
NextFault ==
    \/ \E p \in CoursePaths : \E c \in ProfContentsOf(p) : ProfWrite(p, c)
    \/ \E p \in CoursePaths : \E c \in StudContentsOf(p) : StudWrite(p, c)
    \/ Tick
    \/ \E walk \in WalkOrders : Scan(walk)
    \/ \E walk \in WalkOrders : \E p \in Paths : ScanFaulty(walk, [path |-> p, kind |-> "stat"])
    \/ \E fl \in ForceLists : \E p \in Paths : \E k \in ApplyFaultKinds :
            ApplyFaulty(fl, [path |-> p, kind |-> k])

SpecFault == Init /\ [][NextFault]_vars

\* the runs of main that the end of the process interrupts, and the run that
\* follows
NextCrash ==
    \/ \E p \in CoursePaths : \E c \in ProfContentsOf(p) : ProfWrite(p, c)
    \/ \E p \in CoursePaths : \E c \in StudContentsOf(p) : StudWrite(p, c)
    \/ Tick
    \/ \E walk \in WalkOrders : Scan(walk)
    \/ \E fl \in ForceLists : \E k \in 0..Cardinality(Paths) : \E mid \in BOOLEAN :
            ApplyInterrupted(fl, k, mid)
    \/ \E walk \in WalkOrders : RetryScan(walk)
    \/ RetryApply

SpecCrash == Init /\ [][NextCrash]_vars

\* the runs of main on trees that also hold the generated site
NextSite ==
    \/ \E p \in Paths : \E c \in ProfContentsOf(p) : ProfWrite(p, c)
    \/ \E p \in Paths : \E c \in StudContentsOf(p) : StudWrite(p, c)
    \/ Tick
    \/ \E walk \in WalkOrders : Scan(walk)
    \/ \E fl \in ForceLists : ApplyScanned(fl)

SpecSite == Init /\ [][NextSite]_vars

\* should_sync_file on its own: any path of MatchPaths, any pattern list
InitMatch ==
    /\ prof = EmptyTree
    /\ stud = EmptyTree
    /\ now = 0
    /\ pc = "idle"
    /\ changes = EmptyChanges
    /\ results = EmptyResults
    /\ log = <<>>
    /\ pre = EmptyTree
    /\ force_list = {}
    /\ origin = "scan"
    /\ runs = 0
    /\ edits = 0
    /\ fault = NoFault
    /\ start = EmptyTree
    /\ m_path \in MatchPaths
    /\ m_patterns = <<>>
    /\ m_res = Include
    /\ k_content = <<>>
    /\ k_new = <<>>
    /\ k_blocks = <<>>
    /\ k_out = <<>>
    /\ f_path = NoPath
    /\ f_res = <<>>
    /\ status = NotExited

NextMatch ==
    \/ \E pattern \in PatternPool : AddPattern(pattern)
    \/ UseProgramPatterns
    \/ CallMatcher

SpecMatch == InitMatch /\ [][NextMatch]_vars

\* the end of the process: main returns at line 407 (nothing to sync), at
\* line 417 (the user declines) or after the summary, and the interpreter
\* exits with status 0; an exception that left main is caught at lines
\* 452-456, which call sys.exit(1)
MainExit ==
    /\ pc \in {"scanned", "applied", "raised"}
    /\ status' = IF pc = "raised" THEN 1 ELSE 0
    /\ pc' = IF pc = "raised" THEN "failed" ELSE "exited"
    /\ UNCHANGED <<prof, stud, now, changes, results, log, pre, force_list, origin, runs,
                   edits, fault, start, m_path, m_patterns, m_res, codec_vars,
                   framework_vars>>

\* the runs of the script from its start to the exit of the process, with
\* and without an I/O call that fails; main passes no force_update_list
NextMain ==
    \/ \E p \in CoursePaths : \E c \in ProfContentsOf(p) : ProfWrite(p, c)
    \/ \E p \in CoursePaths : \E c \in StudContentsOf(p) : StudWrite(p, c)
    \/ Tick
    \/ \E walk \in WalkOrders : Scan(walk)
    \/ ApplyScanned({})
    \/ \E p \in Paths : \E k \in ApplyFaultKinds : ApplyFaulty({}, [path |-> p, kind |-> k])
    \/ MainExit

SpecMain == Init /\ [][NextMain]_vars

\* preserve_keep_blocks and apply_keep_blocks on their own: any content of
\* at most MaxLen tokens, any of the new contents
CodecTokens == { KEEP_START, KEEP_END, "a", " " }

RECURSIVE SeqsUpTo(_, _)
\* the sequences of at most n elements of set
SeqsUpTo(set, n) ==
    IF n = 0 THEN { <<>> }
    ELSE LET shorter == SeqsUpTo(set, n - 1)
         IN  shorter \cup { Append(t, x) : t \in { u \in shorter : Len(u) = n - 1 }, x \in set }

CodecContents == SeqsUpTo(CodecTokens, MaxLen)

NewContents == { <<>>, <<"x">>, <<"x", KEEP_START, "\n">> }

InitCodec ==
    /\ prof = EmptyTree
    /\ stud = EmptyTree
    /\ now = 0
    /\ pc = "idle"
    /\ changes = EmptyChanges
    /\ results = EmptyResults
    /\ log = <<>>
    /\ pre = EmptyTree
    /\ force_list = {}
    /\ origin = "scan"
    /\ runs = 0
    /\ edits = 0
    /\ fault = NoFault
    /\ start = EmptyTree
    /\ m_path = NoPath
    /\ m_patterns = <<>>
    /\ m_res = Include
    /\ k_content \in CodecContents
    /\ k_new \in NewContents
    /\ k_blocks = <<>>
    /\ k_out = <<>>
    /\ f_path = NoPath
    /\ f_res = <<>>
    /\ status = NotExited

\* line 229: keep_blocks = preserve_keep_blocks(existing_content)
CallPreserve ==
    /\ pc = "idle"
    /\ k_blocks' = preserve_keep_blocks(k_content)
    /\ pc' = "extracted"
    /\ UNCHANGED <<prof, stud, now, changes, results, log, pre, force_list, origin, runs,
                   edits, fault, start, m_path, m_patterns, m_res,
                   k_content, k_new, k_out, framework_vars, status>>

\* line 241: final_content = apply_keep_blocks(new_content, keep_blocks)
CallApply ==
    /\ pc = "extracted"
    /\ k_out' = apply_keep_blocks(k_new, k_blocks)
    /\ pc' = "merged"
    /\ UNCHANGED <<prof, stud, now, changes, results, log, pre, force_list, origin, runs,
                   edits, fault, start, m_path, m_patterns, m_res,
                   k_content, k_new, k_blocks, framework_vars, status>>

NextCodec ==
    \/ CallPreserve
    \/ CallApply

SpecCodec == InitCodec /\ [][NextCodec]_vars

\* perform_sync on its own: a caller's ChangeSet of one or two files, on
\* trees that hold a text file, a binary file and a framework file
FilePaths == { NotesMd, NotesPng, FrameworkPy }

\* what the source file holds: text, or bytes that are not UTF-8
FileSources(p) == IF p = NotesMd THEN { <<"x">>, <<BadByte, "y">> } ELSE { <<"x">> }

\* what the target file holds: no marker, a start marker alone, a block, a
\* block in a file that is not UTF-8
FileTargets(p) ==
    IF p = NotesMd
    THEN { <<"n">>,
           <<"n", KEEP_START>>,
           <<KEEP_START, " ", "k", KEEP_END>>,
           <<KEEP_START, "k", KEEP_END, BadByte>> }
    ELSE { <<KEEP_START, "k", KEEP_END>> }

\* the tree that holds a, b and c at the three paths and nothing else
TreeOf(a, b, c) ==
    [p \in Paths |-> IF p = NotesMd THEN a
                     ELSE IF p = NotesPng THEN b
                     ELSE IF p = FrameworkPy THEN c
                     ELSE NoFile]

SourceFiles(p) == { NoFile } \cup { File(c, MaxTime) : c \in FileSources(p) }

TargetFiles(p) == { NoFile } \cup { File(c, 0) : c \in FileTargets(p) }

FileChangeSets ==
    { [EmptyChanges EXCEPT !.new_files = <<p>>] : p \in FilePaths }
    \cup { [EmptyChanges EXCEPT !.updated_files = <<p>>] : p \in FilePaths }
    \cup { [EmptyChanges EXCEPT !.new_files = <<NotesPng>>,
                               !.updated_files = <<NotesMd, FrameworkPy>>] }

InitFile ==
    /\ prof \in { TreeOf(a, b, c) : a \in SourceFiles(NotesMd), b \in SourceFiles(NotesPng),
                                     c \in SourceFiles(FrameworkPy) }
    /\ stud \in { TreeOf(a, b, c) : a \in TargetFiles(NotesMd), b \in TargetFiles(NotesPng),
                                     c \in TargetFiles(FrameworkPy) }
    /\ now = MaxTime + 1
    /\ pc = "idle"
    /\ changes = EmptyChanges
    /\ results = EmptyResults
    /\ log = <<>>
    /\ pre = EmptyTree
    /\ force_list = {}
    /\ origin = "direct"
    /\ runs = 0
    /\ edits = 0
    /\ fault = NoFault
    /\ start = EmptyTree
    /\ m_path = NoPath
    /\ m_patterns = <<>>
    /\ m_res = Include
    /\ k_content = <<>>
    /\ k_new = <<>>
    /\ k_blocks = <<>>
    /\ k_out = <<>>
    /\ f_path = NoPath
    /\ f_res = <<>>
    /\ status = NotExited

NextFile ==
    \E ch \in FileChangeSets : \E fl \in ForceLists : ApplyDirect(ch, fl)

SpecFile == InitFile /\ [][NextFile]_vars

\* rel_path arguments is_framework_file is called with on its own: the paths
\* of the trees, a path under each framework directory, a Windows path, the
\* empty path, and paths that hold a framework prefix without beginning
\* with it or that stop short of it
FrameworkChars ==
    PathChars
    @@ ("" :> <<>>)
    @@ ("framework_code\\scripts\\m.py" :>
        <<"f","r","a","m","e","w","o","r","k","_","c","o","d","e","\\","s","c","r","i","p","t","s","\\","m",".","p","y">>)
    @@ ("framework_code/other/x" :>
        <<"f","r","a","m","e","w","o","r","k","_","c","o","d","e","/","o","t","h","e","r","/","x">>)
    @@ ("xframework_code/scripts/m.py" :>
        <<"x","f","r","a","m","e","w","o","r","k","_","c","o","d","e","/","s","c","r","i","p","t","s","/","m",".","p","y">>)
    @@ ("class_notes/framework_code/css/a.css" :>
        <<"c","l","a","s","s","_","n","o","t","e","s","/","f","r","a","m","e","w","o","r","k","_","c","o","d","e","/","c","s","s","/","a",".","c","s","s">>)
    @@ ("framework_code/scripts" :>
        <<"f","r","a","m","e","w","o","r","k","_","c","o","d","e","/","s","c","r","i","p","t","s">>)
    @@ ("framework_code/themes/t" :>
        <<"f","r","a","m","e","w","o","r","k","_","c","o","d","e","/","t","h","e","m","e","s","/","t">>)
    @@ ("framework_code/components/c" :>
        <<"f","r","a","m","e","w","o","r","k","_","c","o","d","e","/","c","o","m","p","o","n","e","n","t","s","/","c">>)
    @@ ("framework_code/css/a.css" :>
        <<"f","r","a","m","e","w","o","r","k","_","c","o","d","e","/","c","s","s","/","a",".","c","s","s">>)
    @@ ("framework_code/assets/i" :>
        <<"f","r","a","m","e","w","o","r","k","_","c","o","d","e","/","a","s","s","e","t","s","/","i">>)
    @@ ("framework_code/hugo_config/c" :>
        <<"f","r","a","m","e","w","o","r","k","_","c","o","d","e","/","h","u","g","o","_","c","o","n","f","i","g","/","c">>)

FrameworkInputs == DOMAIN FrameworkChars

InitFramework ==
    /\ prof = EmptyTree
    /\ stud = EmptyTree
    /\ now = 0
    /\ pc = "idle"
    /\ changes = EmptyChanges
    /\ results = EmptyResults
    /\ log = <<>>
    /\ pre = EmptyTree
    /\ force_list = {}
    /\ origin = "scan"
    /\ runs = 0
    /\ edits = 0
    /\ fault = NoFault
    /\ start = EmptyTree
    /\ m_path = NoPath
    /\ m_patterns = <<>>
    /\ m_res = Include
    /\ k_content = <<>>
    /\ k_new = <<>>
    /\ k_blocks = <<>>
    /\ k_out = <<>>
    /\ f_path \in FrameworkInputs
    /\ f_res = <<>>
    /\ status = NotExited

\* line 283: is_framework = is_framework_file(rel_path); the call is recorded
\* with the number of edits the trees had seen when it was made
CallFramework ==
    /\ Len(f_res) < MaxCalls
    /\ f_res' = Append(f_res, [value |-> is_framework_file(FrameworkChars[f_path]),
                               edits |-> edits])
    /\ UNCHANGED <<prof, stud, now, pc, changes, results, log, pre, force_list, origin, runs,
                   edits, fault, start, m_path, m_patterns, m_res, codec_vars, f_path, status>>

NextFramework ==
    \/ \E c \in ProfContentsOf(FrameworkPy) : ProfWrite(FrameworkPy, c)
    \/ \E c \in StudContentsOf(FrameworkPy) : StudWrite(FrameworkPy, c)
    \/ StudDelete(FrameworkPy)
    \/ CallFramework

SpecFramework == InitFramework /\ [][NextFramework]_vars

(***************************************************************************)
(* Properties                                                              *)
(***************************************************************************)
Range(seq) == { seq[i] : i \in 1..Len(seq) }

LogPaths == { log[i].path : i \in 1..Len(log) }

ExcludedPaths(ch) == { ch.excluded_files[i][1] : i \in 1..Len(ch.excluded_files) }

\* number of positions of seq that hold x
Occurrences(seq, x) == Cardinality({ i \in 1..Len(seq) : seq[i] = x })

\* a run of main that got as far as perform_sync has returned
AppliedScan == pc = "applied" /\ origin = "scan"

\* C1: a file that exists only in the student tree and is not excluded is the
\* same file (bytes and mtime) after perform_sync on a scanned ChangeSet as it
\* was before, whatever the professor tree holds; holding in every reachable
\* state, it holds after any number of runs.
C1_NonDestructive ==
    AppliedScan =>
        \A p \in Paths :
            (pre[p].exists /\ ~prof[p].exists /\ Verdict[p].sync) => stud[p] = pre[p]

\* a run wrote a file while a non-excluded student-only file was present
C1_Witness ==
    /\ AppliedScan
    /\ \E p \in Paths : pre[p].exists /\ ~prof[p].exists /\ Verdict[p].sync
    /\ \E i \in 1..Len(log) : log[i].result = "updated"

\* C2: after one Scan + Apply, a second Scan with no intervening change yields
\* empty new_files and updated_files, and a second Apply yields zero created
\* and zero updated results.
C2_Idempotence ==
    /\ (pc = "scanned" /\ runs >= 1) =>
            changes.new_files = <<>> /\ changes.updated_files = <<>>
    /\ (AppliedScan /\ runs >= 2) =>
            results["created"] = 0 /\ results["updated"] = 0

RECURSIVE InOrderFrom(_, _, _, _)
\* blocks k.. occur in s at or after position i, verbatim, in order, disjoint
InOrderFrom(s, blocks, k, i) ==
    IF k > Len(blocks) THEN TRUE
    ELSE \E j \in i..(Len(s) - Len(blocks[k]) + 1) :
            /\ SubSeq(s, j, j + Len(blocks[k]) - 1) = blocks[k]
            /\ InOrderFrom(s, blocks, k + 1, j + Len(blocks[k]))

\* C3: a student file with N >= 1 KeepBlocks that Scan classified updated is,
\* after Apply, the professor's content followed by the N original block
\* contents verbatim and in their original order.
C3_Preservation ==
    AppliedScan =>
        \A p \in Range(changes.updated_files) :
            LET blocks == preserve_keep_blocks(pre[p].content) IN
            (TextEligible[p] /\ blocks # <<>>) =>
                /\ StartsWith(stud[p].content, prof[p].content)
                /\ InOrderFrom(stud[p].content, blocks, 1, Len(prof[p].content) + 1)

\* one pattern applied to a path by the three rules of the matcher
MatchesPattern(path_str, pattern) ==
    \/ fnmatch(path_str, pattern)
    \/ (EndsWith(pattern, <<"/">>) /\ StartsWith(path_str, pattern))
    \/ /\ Contains(pattern, <<"/","*","*">>)
       /\ StartsWith(path_str, Replace(pattern, <<"/","*","*">>, <<"/">>))

\* for each category number, the paths of the model that match one of its
\* patterns
MatchingCategory ==
    [k \in 1..Len(SYNC_EXCLUSIONS) |->
        { p \in Paths : \E i \in 1..Len(SYNC_EXCLUSIONS[k][2]) :
                            MatchesPattern(Str(p), SYNC_EXCLUSIONS[k][2][i]) }]

\* C4: a path that matches a pattern of any category of SYNC_EXCLUSIONS is in
\* none of new_files, updated_files, student_only_files of a scan result, and
\* perform_sync on that result neither visits nor changes the student's file
\* at that path.
C4_ExclusionCorrect ==
    \A k \in 1..Len(SYNC_EXCLUSIONS) : \A p \in MatchingCategory[k] :
        /\ (origin = "scan" /\ pc \in {"scanned", "applied"}) =>
                p \notin Range(changes.new_files) \cup Range(changes.updated_files)
                         \cup Range(changes.student_only_files)
        /\ AppliedScan => (p \notin LogPaths /\ stud[p] = pre[p])

\* a run wrote a file while the professor had an excluded file the student
\* lacks, or the student had an excluded file of its own
C4_Witness ==
    /\ AppliedScan
    /\ \E k \in 1..Len(SYNC_EXCLUSIONS) : \E p \in MatchingCategory[k] :
            \/ prof[p].exists /\ ~pre[p].exists
            \/ pre[p].exists /\ ~prof[p].exists
    /\ \E i \in 1..Len(log) : log[i].result = "updated"

\* C5: a professor file under a framework prefix whose student copy exists is
\* classified updated by Scan and overwritten by Apply, even when the student
\* copy's mtime is newer.
C5_ForceOverride ==
    \A p \in Paths :
        (IsFramework[p] /\ prof[p].exists) =>
            /\ (pc = "scanned" /\ stud[p].exists) => p \in Range(changes.updated_files)
            /\ (AppliedScan /\ pre[p].exists) => stud[p] = prof[p]

\* in how many of the four professor-side lists the path occurs, counting
\* repetitions
ProfSideCount(ch, p) ==
    Occurrences(ch.new_files, p) + Occurrences(ch.updated_files, p)
    + Occurrences(ch.unchanged_files, p)
    + Cardinality({ i \in 1..Len(ch.excluded_files) : ch.excluded_files[i][1] = p })

C7_NeverSkipped ==
    AppliedScan => \A i \in 1..Len(log) : log[i].result # "skipped"

\* C8: perform_sync visits no path that Scan classified unchanged or excluded,
\* and the student's file at such a path has the same bytes and mtime after
\* Apply as before.
C8_UnchangedProtected ==
    AppliedScan =>
        \A p \in Range(changes.unchanged_files) \cup ExcludedPaths(changes) :
            p \notin LogPaths /\ stud[p] = pre[p]

\* a run visited a file while another was classified unchanged
C8_Witness ==
    /\ AppliedScan
    /\ changes.unchanged_files # <<>>
    /\ log # <<>>

\* C9: Scan classifies a non-excluded professor file it enumerates as new iff
\* the student path does not exist, updated iff it exists with an mtime
\* strictly less than the professor's, unchanged otherwise (equal mtimes are
\* unchanged).
C9_ClassificationRule ==
    pc = "scanned" =>
        \A p \in Paths :
            (p \in ContentPaths /\ prof[p].exists /\ Verdict[p].sync) =>
                /\ p \in Range(changes.new_files) <=> ~stud[p].exists
                /\ p \in Range(changes.updated_files) <=>
                        (stud[p].exists /\ stud[p].mtime < prof[p].mtime)
                /\ p \in Range(changes.unchanged_files) <=>
                        (stud[p].exists /\ stud[p].mtime >= prof[p].mtime)

\* a scan met a file whose two copies have equal mtimes
C9_Witness ==
    /\ pc = "scanned"
    /\ \E p \in Paths :
          /\ p \in ContentPaths /\ Verdict[p].sync
          /\ prof[p].exists /\ stud[p].exists
          /\ stud[p].mtime = prof[p].mtime
          /\ p \in Range(changes.unchanged_files)

\* C10: after sync_file has written a student file, by plain copy or by the
\* KeepBlock merge, the file's mtime equals the professor file's mtime.
C10_MtimeMatchesSource ==
    pc = "applied" =>
        \A i \in 1..Len(log) :
            log[i].result \in {"updated", "created"} =>
                stud[log[i].path].mtime = prof[log[i].path].mtime

\* C11: an I/O failure while perform_sync processes one file (creating the
\* parent directory, reading the existing target, reading the source, writing
\* the target) gives the result 'error' for that file and for no other, and
\* perform_sync still processes every file of new_files + updated_files.
C11_ApplyErrorIsolation ==
    (fault.kind \in ApplyFaultKinds) =>
        /\ pc = "applied"
        /\ Len(log) = Len(all_files(changes))
        /\ \A i \in 1..Len(log) :
              /\ log[i].path = all_files(changes)[i]
              /\ log[i].result = "error" <=> log[i].path = fault.path

\* C12: when stat of one file fails during the scan, the scan still returns
\* a ChangeSet, which omits that file and classifies every other file as the
\* scan without the failure does.
C12_ScanErrorIsolation ==
    (fault.kind = "stat") =>
        /\ pc = "scanned"
        /\ ProfSideCount(changes, fault.path) = 0
        /\ \A p \in ContentPaths \ {fault.path} :
              ProfSideCount(changes, p) = (IF prof[p].exists THEN 1 ELSE 0)

\* C13 as stated: after a sync run that was interrupted between two files, or
\* after a target's bytes were written and before its metadata was set, a new
\* Scan + Apply ends with the student tree, modification times included, that
\* the uninterrupted run from the same trees gives.
C13_CrashConvergenceExact ==
    pc = "recovered" =>
        stud = perform_sync(prof, start,
                            scan_directory_changes(prof, start, WalkForward),
                            force_list, now).stud

\* C13 amended: after a sync run that was interrupted between two files, or after a
\* target's bytes were written and before its metadata was set, a new Scan
\* classifies every file the interrupted run wrote as unchanged, and the
\* Apply that follows does not visit those files and ends with the same
\* files and bytes in the student tree as the uninterrupted run from the
\* same trees gives.
C13_CrashConvergence ==
    /\ pc = "rescanned" =>
          \A p \in Paths : stud[p] # start[p] => p \in Range(changes.unchanged_files)
    /\ pc = "recovered" =>
          LET whole == perform_sync(prof, start,
                                    scan_directory_changes(prof, start, WalkForward),
                                    force_list, now).stud
          IN  /\ \A p \in Paths :
                    /\ stud[p].exists = whole[p].exists
                    /\ stud[p].content = whole[p].content
              /\ \A p \in Paths : pre[p] # start[p] => p \notin LogPaths

\* a run was cut short inside one file after the source's mtime, and the
\* run that followed wrote another file
C13_Witness ==
    /\ pc = "recovered"
    /\ fault.kind = "interrupt" /\ fault.path \in Paths
    /\ pre[fault.path] # start[fault.path]
    /\ pre[fault.path].mtime > prof[fault.path].mtime
    /\ \E i \in 1..Len(log) : log[i].result = "updated"

\* C14: the inner text of every KeepBlock of a student file, leading and
\* trailing whitespace included, is in the file after sync_file has
\* overwritten it, and is still in the file after a further overwriting
\* sync_file call.
C14_KeepBlocksSurvive ==
    pc = "applied" =>
        \A i \in 1..Len(log) :
            LET p == log[i].path
                blocks == preserve_keep_blocks(pre[p].content)
                again == sync_file(prof, stud, p, TRUE, now).stud[p].content
            IN  (log[i].result = "updated" /\ pre[p].exists /\ TextEligible[p]) =>
                    \A k \in 1..Len(blocks) :
                        /\ InOrderFrom(stud[p].content, <<blocks[k]>>, 1, 1)
                        /\ InOrderFrom(again, <<blocks[k]>>, 1, 1)

\* the result perform_sync logged for a path, "none" if it did not visit it
ResultFor(log_, p) ==
    IF \E i \in 1..Len(log_) : log_[i].path = p
    THEN log_[CHOOSE i \in 1..Len(log_) : log_[i].path = p].result
    ELSE "none"

\* the file lists perform_sync can be called with in the current state
CallableFileLists ==
    IF pc = "scanned" THEN { all_files(changes) }
    ELSE IF pc = "idle" THEN { all_files(ch) : ch \in DirectChangeSets }
    ELSE {}

C16_ScenarioA ==
    LET fresh == { p \in ContentPaths : prof[p].exists /\ Verdict[p].sync } IN
    /\ (pc = "scanned" /\ stud = EmptyTree) =>
            /\ Range(changes.new_files) = fresh
            /\ Len(changes.new_files) = Cardinality(fresh)
    /\ (AppliedScan /\ pre = EmptyTree) =>
            \A p \in fresh :
                /\ stud[p].exists
                /\ stud[p].content = prof[p].content
                /\ stud[p].mtime = prof[p].mtime

\* a run on an empty student tree copied the professor's one file, at a time
\* later than that file's mtime
C16_Witness ==
    /\ AppliedScan /\ pre = EmptyTree
    /\ \E p \in ContentPaths :
          /\ changes.new_files = <<p>>
          /\ stud[p].exists
          /\ prof[p].mtime < now

\* C17 as stated: Scan records a professor file at
\* hugo_generated/public/index.html in excluded_files with the reason
\* build_artifacts, and in none of new_files, updated_files, unchanged_files.
C17_ScenarioD ==
    (pc = "scanned" /\ prof[HugoIndex].exists) =>
        /\ \E i \in 1..Len(changes.excluded_files) :
              /\ changes.excluded_files[i][1] = HugoIndex
              /\ ReasonText(changes.excluded_files[i][2]) = CategoryChars["build_artifacts"]
        /\ HugoIndex \notin Range(changes.new_files) \cup Range(changes.updated_files)
                           \cup Range(changes.unchanged_files)

\* C17 amended: whatever the mtimes and whether or not the student has a copy,
\* Scan records a professor file at hugo_generated/public/index.html in none
\* of its five lists, excluded_files included (the path is outside the
\* content directories and no exclusion pattern matches it), and Apply
\* leaves the student's file at that path as it was.
C17_ScenarioDOutside ==
    /\ (pc = "scanned" /\ prof[HugoIndex].exists) =>
            /\ ProfSideCount(changes, HugoIndex) = 0
            /\ HugoIndex \notin Range(changes.student_only_files)
            /\ Verdict[HugoIndex].sync
    /\ (AppliedScan /\ prof[HugoIndex].exists) =>
            /\ HugoIndex \notin LogPaths
            /\ stud[HugoIndex] = pre[HugoIndex]

\* a run was applied while the professor's generated page was newer than the
\* student's copy of it
C17_Witness ==
    /\ AppliedScan
    /\ prof[HugoIndex].exists /\ stud[HugoIndex].exists
    /\ stud[HugoIndex].mtime < prof[HugoIndex].mtime

\* the path should_sync_file matches against, after its normalisation
MatchedPath == NormalizePath(MatchChars[m_path])

\* the positions of m_patterns whose pattern matches the path by one of the
\* three rules
MatchingPositions ==
    { k \in 1..Len(m_patterns) : MatchesPattern(MatchedPath, m_patterns[k]) }

\* the orders of a pattern list that are compared: every permutation of a
\* short list, the list and its reverse for a long one
Reorderings(seq) ==
    IF Len(seq) <= MaxPatterns + 1
    THEN { [i \in 1..Len(seq) |-> seq[f[i]]] : f \in Permutations(1..Len(seq)) }
    ELSE { seq, [i \in 1..Len(seq) |-> seq[Len(seq) + 1 - i]] }

\* C18: should_sync_file excludes a path iff at least one pattern of the list
\* matches it by the glob, directory-prefix or recursive rule; the decision
\* is the same for every order of the list; an empty list excludes nothing.
C18_UnionOverPatterns ==
    pc = "matched" =>
        /\ ~m_res.sync <=> MatchingPositions # {}
        /\ \A perm \in Reorderings(m_patterns) :
              should_sync_file(MatchChars[m_path], perm).sync = m_res.sync
        /\ m_patterns = <<>> => m_res.sync

\* a path was excluded by a pattern that is not the first of the list
C18_Witness ==
    /\ pc = "matched"
    /\ ~m_res.sync
    /\ Len(m_patterns) >= 2
    /\ 1 \notin MatchingPositions

\* the number of the first category of SYNC_EXCLUSIONS that holds a pattern
\* matching the path, 0 if none
FirstCategory ==
    LET cats == { c \in 1..Len(SYNC_EXCLUSIONS) :
                    \E i \in 1..Len(SYNC_EXCLUSIONS[c][2]) :
                        MatchesPattern(MatchedPath, SYNC_EXCLUSIONS[c][2][i]) }
    IN  IF cats = {} THEN 0 ELSE CHOOSE c \in cats : \A d \in cats : c <= d

\* C19 as stated: for a path excluded under the program's patterns, the
\* reason returned is the name of the first category that holds a matching
\* pattern.
C19_ReasonIsCategory ==
    (pc = "matched" /\ m_patterns = get_all_exclusion_patterns /\ ~m_res.sync) =>
        ReasonText(m_res) = CategoryChars[SYNC_EXCLUSIONS[FirstCategory][1]]

\* C19 amended: for an excluded path the reason returned is the rule that
\* matched ('pattern', 'directory' or 'recursive', tried in this order)
\* followed by ': ' and the first pattern of the list that matches; under the
\* program's patterns that pattern belongs to the first category that holds
\* a matching pattern.
C19_ReasonIsFirstPattern ==
    (pc = "matched" /\ ~m_res.sync) =>
        LET k == CHOOSE i \in MatchingPositions : \A j \in MatchingPositions : i <= j
            pattern == m_patterns[k]
            rule == IF fnmatch(MatchedPath, pattern) THEN "pattern"
                    ELSE IF EndsWith(pattern, <<"/">>) THEN "directory"
                    ELSE "recursive"
        IN  /\ MatchingPositions # {}
            /\ m_res.pattern = pattern
            /\ m_res.kind = rule
            /\ EndsWith(ReasonText(m_res), <<":", " ">> \o pattern)
            /\ \A c \in 1..Len(SYNC_EXCLUSIONS) :
                  ReasonText(m_res) # CategoryChars[SYNC_EXCLUSIONS[c][1]]
            /\ m_patterns = get_all_exclusion_patterns =>
                    m_res.pattern \in Range(SYNC_EXCLUSIONS[FirstCategory][2])

\* a path was excluded under the program's patterns while patterns of two
\* categories match it
C19_Witness ==
    /\ pc = "matched"
    /\ m_patterns = get_all_exclusion_patterns
    /\ ~m_res.sync
    /\ \E c \in 1..Len(SYNC_EXCLUSIONS) :
          /\ c # FirstCategory
          /\ \E i \in 1..Len(SYNC_EXCLUSIONS[c][2]) :
                MatchesPattern(MatchedPath, SYNC_EXCLUSIONS[c][2][i])

\* the text of s before its first '/', all of s if it has none
LeadingSegment(s) ==
    IF Find(s, "/", 1) = 0 THEN s ELSE SubSeq(s, 1, Find(s, "/", 1) - 1)

\* a pattern 'd/' or 'd/**' whose d is one literal path segment
IsDirectoryPattern(pattern) ==
    LET d == LeadingSegment(pattern) IN
    /\ d # <<>>
    /\ \A i \in 1..Len(d) : d[i] \notin {"*", "?", "["}
    /\ pattern \in { d \o <<"/">>, d \o <<"/","*","*">> }

\* C20: a directory pattern 'd/' or 'd/**' does not exclude a path whose
\* leading segment is not d itself, for one that only ends with d or holds d
\* inside.
C20_WholeSegment ==
    pc = "matched" =>
        \A k \in 1..Len(m_patterns) :
            (/\ IsDirectoryPattern(m_patterns[k])
             /\ LeadingSegment(MatchedPath) # LeadingSegment(m_patterns[k])) =>
                /\ ~MatchesPattern(MatchedPath, m_patterns[k])
                /\ ~m_res.sync => m_res.pattern # m_patterns[k]

\* rebuild/x was matched against 'build/' and 'build/**' and not excluded
C20_Witness ==
    /\ pc = "matched"
    /\ m_path = "rebuild/x"
    /\ Len(m_patterns) = 2
    /\ \A k \in 1..2 : IsDirectoryPattern(m_patterns[k])
                        /\ LeadingSegment(m_patterns[k]) = <<"b","u","i","l","d">>
    /\ m_patterns[1] # m_patterns[2]
    /\ m_res.sync

\* C21: preserve_keep_blocks returns, in document order, the inner text of
\* every span that runs from a start marker to the next end marker after it,
\* the spans taken leftmost first and not overlapping; a start marker with
\* no end marker after it yields no block.
C21_ExtractSpans ==
    pc \in {"extracted", "merged"} =>
        LET n == Len(k_blocks)
            L == Len(k_content)
        IN  \E sp \in [1..n -> (1..L) \X (1..L)] :
                /\ \A j \in 1..n :
                    LET s == sp[j][1]
                        e == sp[j][2]
                        from == IF j = 1 THEN 1 ELSE sp[j - 1][2] + 1
                    IN  /\ from <= s /\ s < e
                        /\ k_content[s] = KEEP_START
                        /\ k_content[e] = KEEP_END
                        \* the next end marker after the start marker
                        /\ \A i \in (s + 1)..(e - 1) : k_content[i] # KEEP_END
                        \* the leftmost start marker not inside an earlier span
                        /\ \A i \in from..(s - 1) : k_content[i] # KEEP_START
                        /\ k_blocks[j] = SubSeq(k_content, s + 1, e - 1)
                \* what is left holds no start marker with an end marker after it
                /\ LET rest == IF n = 0 THEN 1 ELSE sp[n][2] + 1
                   IN  \A s \in rest..L : \A e \in (s + 1)..L :
                            ~(k_content[s] = KEEP_START /\ k_content[e] = KEEP_END)

\* a content with a start marker inside a block and a start marker without
\* an end marker after the block was scanned: one block came back
C21_Witness ==
    /\ pc = "extracted"
    /\ Len(k_blocks) = 1
    /\ \E i \in 1..Len(k_blocks[1]) : k_blocks[1][i] = KEEP_START
    /\ k_content[Len(k_content)] = KEEP_START

\* the comments that open and close preserved block number k
BeginComment(k) == <<"<!-- PRESERVED BLOCK ">> \o Decimal(k) \o <<" -->">>

EndComment(k) == <<"<!-- END PRESERVED BLOCK ">> \o Decimal(k) \o <<" -->">>

\* sub occurs in s within positions from..to
OccursWithin(s, sub, from, to) ==
    \E j \in from..(to - Len(sub) + 1) : SubSeq(s, j, j + Len(sub) - 1) = sub

RECURSIVE WrappedFrom(_, _, _, _)
\* from position i on, s holds blocks k.. in order, block number k between
\* its begin comment and its end comment
WrappedFrom(s, blocks, k, i) ==
    IF k > Len(blocks) THEN TRUE
    ELSE \E b \in i..Len(s) : \E e \in (b + 1)..Len(s) :
            LET bl == Len(BeginComment(k))
                el == Len(EndComment(k))
            IN  /\ b + bl <= e /\ e + el - 1 <= Len(s)
                /\ SubSeq(s, b, b + bl - 1) = BeginComment(k)
                /\ SubSeq(s, e, e + el - 1) = EndComment(k)
                /\ OccursWithin(s, blocks[k], b + bl, e - 1)
                /\ WrappedFrom(s, blocks, k + 1, e + el)

\* C22: apply_keep_blocks returns new_content unchanged when blocks is
\* empty; otherwise its output begins with new_content, and what follows
\* holds, for k = 1..N in this order, the k-th input block between a begin
\* comment and an end comment that both carry the number k.
C22_WrappedInOrder ==
    pc = "merged" =>
        IF k_blocks = <<>>
        THEN k_out = k_new
        ELSE /\ Len(k_out) > Len(k_new)
             /\ SubSeq(k_out, 1, Len(k_new)) = k_new
             /\ WrappedFrom(k_out, k_blocks, 1, Len(k_new) + 1)

\* the suffixes of the text allow-list of line 226, as the ends of a path
HasTextSuffix(p) == \E suf \in TextSuffixes : EndsWith(Str(p), suf)

\* content holds a start marker and an end marker after it
HasKeepBlock(content) ==
    \E i \in 1..Len(content) : \E j \in (i + 1)..Len(content) :
        content[i] = KEEP_START /\ content[j] = KEEP_END

HasMarker(content) ==
    \E i \in 1..Len(content) : content[i] \in { KEEP_START, KEEP_END }

\* the perform_sync call that was made last was handed a ChangeSet by its
\* caller
AppliedDirect == pc = "applied" /\ origin = "direct"

\* C23: a sync_file call that overwrites an existing target whose suffix is
\* not in the text allow-list, or that holds no KeepBlock, leaves the target
\* with exactly the source's content, marker strings in the old target or
\* not.
C23_TextEligibility ==
    AppliedDirect =>
        \A i \in 1..Len(log) :
            LET p == log[i].path IN
            ( /\ pre[p].exists
              /\ log[i].result \in {"updated", "created"}
              /\ (\A j \in 1..Len(log) : log[j].path = p => j = i)
              /\ ~HasTextSuffix(p) \/ ~HasKeepBlock(pre[p].content) )
            => stud[p].content = prof[p].content

\* a binary target that held a whole block and a text target that held a
\* start marker alone were both overwritten in one run
C23_Witness ==
    /\ AppliedDirect
    /\ \E i, j \in 1..Len(log) :
        /\ log[i].path = NotesPng /\ log[j].path = NotesMd
        /\ log[i].result = "updated" /\ log[j].result = "updated"
        /\ HasKeepBlock(pre[NotesPng].content)
        /\ HasMarker(pre[NotesMd].content) /\ ~HasKeepBlock(pre[NotesMd].content)

\* C24: when the read of a text-eligible target for KEEP markers fails to
\* decode, sync_file goes on with no KeepBlocks: the call does not return
\* "error", and the target holds the source's bytes and modification time.
C24_DecodeFailureTolerated ==
    AppliedDirect =>
        \A i \in 1..Len(log) :
            LET p == log[i].path IN
            ( /\ pre[p].exists
              /\ HasTextSuffix(p)
              /\ ~Decodable(pre[p].content)
              /\ prof[p].exists
              /\ p \in force_list \/ is_framework_file(Str(p)) )
            => /\ log[i].result \in {"created", "updated"}
               /\ stud[p] = prof[p]

\* a text target that holds a block and a byte that is not UTF-8 was
\* overwritten, from a source that differs from it
C24_Witness ==
    /\ AppliedDirect
    /\ \E i \in 1..Len(log) :
        /\ log[i].path = NotesMd
        /\ log[i].result = "updated"
        /\ ~Decodable(pre[NotesMd].content)
        /\ HasKeepBlock(pre[NotesMd].content)
        /\ pre[NotesMd] # prof[NotesMd]
        /\ stud[NotesMd] = prof[NotesMd]

\* C27: for a file whose sync_file call does not fail, an existing target
\* is overwritten iff the path is a framework path or is in
\* force_update_list, and otherwise the call returns "skipped" and leaves
\* the target's bytes and modification time as they were; a target that
\* does not exist is written whether the path is forced or not.
C27_ForceSkipRule ==
    AppliedDirect =>
        \A i \in 1..Len(log) :
            LET p == log[i].path
                forced == p \in force_list \/ is_framework_file(Str(p))
                overwritten ==
                    /\ log[i].result \in {"created", "updated"}
                    /\ StartsWith(stud[p].content, prof[p].content)
                    /\ stud[p].mtime >= prof[p].mtime
            IN  log[i].result # "error" =>
                    IF pre[p].exists
                    THEN /\ forced <=> overwritten
                         /\ ~forced => (log[i].result = "skipped" /\ stud[p] = pre[p])
                    ELSE stud[p].exists /\ overwritten

\* one run skipped an existing target that was not forced, overwrote an
\* existing framework file that was not in force_update_list, and wrote a
\* target that did not exist
C27_Witness ==
    /\ AppliedDirect
    /\ force_list = {}
    /\ \E i, j, k \in 1..Len(log) :
        /\ log[i].path = NotesMd /\ pre[NotesMd].exists
        /\ log[i].result = "skipped" /\ stud[NotesMd] # prof[NotesMd]
        /\ log[j].path = FrameworkPy /\ pre[FrameworkPy].exists
        /\ log[j].result = "updated" /\ stud[FrameworkPy] # pre[FrameworkPy]
        /\ log[k].path = NotesPng /\ ~pre[NotesPng].exists /\ stud[NotesPng].exists

\* number of entries of log_ that satisfy Test
CountLog(log_, Test(_)) == Cardinality({ i \in 1..Len(log_) : Test(log_[i]) })

\* the value of results[key], 0 when the key is not in the dictionary
Counter(res, key) == IF key \in DOMAIN res THEN res[key] ELSE 0

\* C28: a sync_file call that succeeds returns "created" iff the target did
\* not exist before the call and "updated" iff it existed and was
\* overwritten, and results['created'] is the number of files of the run
\* that were written where no target was.
C28_ResultTagging ==
    AppliedDirect =>
        /\ \A i \in 1..Len(log) :
                log[i].result \in {"created", "updated"} =>
                    /\ log[i].result = "created" <=> ~pre[log[i].path].exists
                    /\ log[i].result = "updated" <=> pre[log[i].path].exists
        /\ Counter(results, "created") =
                Cardinality({ p \in LogPaths : ~pre[p].exists /\ stud[p].exists })

\* C30: on return from perform_sync every path of new_files + updated_files
\* has exactly one outcome, results['created'] + results['updated'] +
\* results['skipped'] + results['errors'] is the number of these paths, and
\* results['errors'] is the number of files whose sync_file call failed.
C30_ExactlyOnceAccounting ==
    AppliedDirect =>
        LET files == all_files(changes)
            IsError(entry) == entry.result = "error"
        IN  /\ Len(log) = Len(files)
            /\ \A i \in 1..Len(files) : log[i].path = files[i]
            /\ results["created"] + results["updated"] + results["skipped"]
                    + results["errors"] = Len(files)
            /\ results["errors"] = CountLog(log, IsError)

\* the directories of framework_code whose files are framework files
FrameworkDirs ==
    { <<"s","c","r","i","p","t","s">>,
      <<"t","h","e","m","e","s">>,
      <<"c","o","m","p","o","n","e","n","t","s">>,
      <<"c","s","s">>,
      <<"a","s","s","e","t","s">>,
      <<"h","u","g","o","_","c","o","n","f","i","g">> }

\* the characters of a path with every backslash turned into a slash
Slashed(s) == [i \in 1..Len(s) |-> IF s[i] = "\\" THEN "/" ELSE s[i]]

\* C25: every call of is_framework_file returns a value, and the value is
\* true iff the path, backslashes taken as slashes, begins with
\* framework_code/<dir>/ for one of the six framework directories; calls
\* with the same path return the same value whatever the trees hold and
\* whatever calls were made before.
C25_FrameworkPrefix ==
    \A i \in 1..Len(f_res) :
        LET path == Slashed(FrameworkChars[f_path])
            root == <<"f","r","a","m","e","w","o","r","k","_","c","o","d","e","/">>
        IN  /\ f_res[i].value \in BOOLEAN
            /\ f_res[i].value <=>
                    \E dir \in FrameworkDirs :
                        LET prefix == root \o dir \o <<"/">> IN
                        /\ Len(path) >= Len(prefix)
                        /\ SubSeq(path, 1, Len(prefix)) = prefix
            /\ f_res[i].value = f_res[1].value

\* a path written with backslashes was classified as a framework file twice,
\* before and after the framework file of the student tree was written
C25_Witness ==
    /\ Len(f_res) >= 2
    /\ \E i \in 1..Len(FrameworkChars[f_path]) : FrameworkChars[f_path][i] = "\\"
    /\ f_res[1].value /\ f_res[2].value
    /\ f_res[1].edits < f_res[2].edits
    /\ stud[FrameworkPy].exists

\* the last perform_sync recorded the result "error" for some file
SomeFileFailed == \E i \in 1..Len(log) : log[i].result = "error"

\* C26: a run in which the result of some file is an error ends with a
\* non-zero exit status, and a run that main completes with no error result
\* ends with exit status 0.
C26_ErrorsSurface ==
    /\ (pc \in {"exited", "failed"} /\ SomeFileFailed) => status # 0
    /\ (pc = "exited" /\ ~SomeFileFailed) => status = 0

\* the paths of the trees that are not below class_notes/
OutsideContent ==
    { p \in Paths :
        LET dir == <<"c","l","a","s","s","_","n","o","t","e","s","/">>
        IN  ~(Len(Str(p)) > Len(dir) /\ SubSeq(Str(p), 1, Len(dir)) = dir) }

====
